---------------------------- MODULE Spec2Model ----------------------------
(***************************************************************************)
(* A model of elt_tools/client.py: the time-range predicate builder, the   *)
(* data endpoint (count / fetch / delete against a store) and the          *)
(* reconciliation pair (compare_counts, find_orphans,                      *)
(* remove_orphans_from_target, remove_orphans_from_target_with_binary_     *)
(* search).                                                                *)
(*                                                                         *)
(* Time is modelled as Python models it: a datetime is (day, second of the *)
(* day, microsecond), a date is a day, a timedelta is the normalised       *)
(* triple (days, seconds, microseconds).                                   *)
(***************************************************************************)
EXTENDS Integers, Sequences, FiniteSets, TLC

VARIABLES source, target, last

vars == <<source, target, last>>

(***************************************************************************)
(* Bounds of the model.                                                    *)
(***************************************************************************)
\* rows of the target; the source holds at most one row
MaxRows == 2
\* largest threshold a caller passes
MaxThres == 2
\* most statements a failing store serves before it fails
MaxHealthy == 7
\* largest count of rows given to the case analysis
MaxCount == 2

(***************************************************************************)
(* datetime.datetime, datetime.date, datetime.timedelta, None              *)
(***************************************************************************)
SecondsPerDay == 24 * 60 * 60
MicrosPerSecond == 1000 * 1000

None == [k |-> "None", day |-> 0, sec |-> 0, us |-> 0]
DT(d, s, u) == [k |-> "datetime", day |-> d, sec |-> s, us |-> u]
Date(d) == [k |-> "date", day |-> d, sec |-> 0, us |-> 0]
timedelta(d, s, u) ==
    LET s2 == s + (u \div MicrosPerSecond)
    IN  [days |-> d + (s2 \div SecondsPerDay),
         seconds |-> s2 % SecondsPerDay,
         microseconds |-> u % MicrosPerSecond]

\* truthiness of an optional datetime: None is falsy, every datetime and date is truthy
truthy(x) == x.k # "None"

\* datetime.date(): only a datetime has it; on a date it is an AttributeError
has_date_method(x) == x.k = "datetime"
date_of(x) == Date(x.day)

\* end - start; both operands are of the same kind
time_sub(a, b) == timedelta(a.day - b.day, a.sec - b.sec, a.us - b.us)

\* timedelta / 2: true division of the microsecond total, rounded half to even
timedelta_half(td) ==
    LET qd == td.days \div 2
        s1 == td.seconds + (td.days % 2) * SecondsPerDay
        qs == s1 \div 2
        u1 == td.microseconds + (s1 % 2) * MicrosPerSecond
        fl == u1 \div 2
        qu == IF u1 % 2 = 0 THEN fl ELSE IF fl % 2 = 0 THEN fl ELSE fl + 1
    IN  timedelta(qd, qs, qu)

\* start + timedelta: a date takes only the days of the timedelta
time_add(a, td) ==
    IF a.k = "date"
    THEN Date(a.day + td.days)
    ELSE LET r == timedelta(a.day + td.days, a.sec + td.seconds, a.us + td.microseconds)
         IN  DT(r.days, r.seconds, r.microseconds)

timedelta_lt(x, y) ==
    \/ x.days < y.days
    \/ x.days = y.days /\ x.seconds < y.seconds
    \/ x.days = y.days /\ x.seconds = y.seconds /\ x.microseconds < y.microseconds

\* order of two points in time of the store (timestamps)
ts_lt(a, b) ==
    \/ a.day < b.day
    \/ a.day = b.day /\ a.sec < b.sec
    \/ a.day = b.day /\ a.sec = b.sec /\ a.us < b.us
ts_ge(a, b) == ~ts_lt(a, b)


(***************************************************************************)
(* _construct_where_clause_from_timerange                                  *)
(*                                                                         *)
(* The clause is the text the code builds, kept structured: its head       *)
(* ("" for the empty clause, " WHERE " or " AND "), the word joining its   *)
(* terms and the terms, each comparing one timestamp field with the        *)
(* rendered bounds ("field >= 'from'", "field < 'to'").                    *)
(***************************************************************************)
\* f"{start_datetime}": str() of a datetime or of a date
NoLiteral == [fmt |-> "", day |-> 0, sec |-> 0, us |-> 0]
str_time(x) ==
    IF x.k = "date"
    THEN [fmt |-> "YYYY-MM-DD", day |-> x.day, sec |-> 0, us |-> 0]
    ELSE [fmt |-> "YYYY-MM-DD HH:MM:SS.ffffff", day |-> x.day, sec |-> x.sec, us |-> x.us]

EmptyClause == [head |-> "", join |-> "", terms |-> <<>>]

Returned(w) == [err |-> "none", where |-> w]
Raised(e) == [err |-> e, where |-> EmptyClause]

\* build_where_clause with the end of a two-bound range included
build_where_clause_closed(start_datetime, end_datetime, timestamp_fields) ==
    [head |-> IF timestamp_fields # <<>> /\ (truthy(start_datetime) \/ truthy(end_datetime))
              THEN " WHERE " ELSE "",
     join |-> " OR ",
     terms |-> [i \in 1..Len(timestamp_fields) |->
                  [field |-> timestamp_fields[i],
                   lower |-> IF truthy(start_datetime) THEN ">=" ELSE "",
                   from |-> IF truthy(start_datetime) THEN str_time(start_datetime)
                            ELSE NoLiteral,
                   upper |-> IF truthy(end_datetime) THEN "<=" ELSE "",
                   to |-> IF truthy(end_datetime) THEN str_time(end_datetime)
                          ELSE NoLiteral]]]

\* lines 34-51, after the checks and the truncation
build_where_clause(start_datetime, end_datetime, timestamp_fields) ==
    LET fields == timestamp_fields # <<>>
        n == Len(timestamp_fields)
    IN  IF fields /\ truthy(start_datetime) /\ truthy(end_datetime)
        THEN [head |-> " WHERE ", join |-> " OR ",
              terms |-> [i \in 1..n |->
                           [field |-> timestamp_fields[i],
                            lower |-> ">=", from |-> str_time(start_datetime),
                            upper |-> "<", to |-> str_time(end_datetime)]]]
        ELSE IF fields /\ truthy(start_datetime)
        THEN [head |-> " WHERE ", join |-> " AND ",
              terms |-> [i \in 1..n |->
                           [field |-> timestamp_fields[i],
                            lower |-> ">=", from |-> str_time(start_datetime),
                            upper |-> "", to |-> NoLiteral]]]
        ELSE IF fields /\ truthy(end_datetime)
        THEN [head |-> " AND ", join |-> " AND ",
              terms |-> [i \in 1..n |->
                           [field |-> timestamp_fields[i],
                            lower |-> "", from |-> NoLiteral,
                            upper |-> "<", to |-> str_time(end_datetime)]]]
        ELSE EmptyClause

\* line 18: the check for a meaningless date range, made on the bounds as passed
same_range_check(start_datetime, end_datetime, stick_to_dates) ==
    stick_to_dates /\ start_datetime = end_datetime

\* the builder without the check of lines 23-26
construct_where_clause_unchecked(start_datetime, end_datetime, timestamp_fields, stick_to_dates) ==
    IF same_range_check(start_datetime, end_datetime, stick_to_dates)
    THEN Raised("ValueError")
    ELSE IF stick_to_dates
            /\ \/ truthy(start_datetime) /\ ~has_date_method(start_datetime)
               \/ truthy(end_datetime) /\ ~has_date_method(end_datetime)
    THEN Raised("AttributeError")
    ELSE LET s == IF stick_to_dates /\ truthy(start_datetime)
                  THEN date_of(start_datetime) ELSE start_datetime
             e == IF stick_to_dates /\ truthy(end_datetime)
                  THEN date_of(end_datetime) ELSE end_datetime
         IN  Returned(build_where_clause(s, e, timestamp_fields))

construct_where_clause_from_timerange(start_datetime, end_datetime, timestamp_fields, stick_to_dates) ==
    IF same_range_check(start_datetime, end_datetime, stick_to_dates)
    THEN Raised("ValueError")
    ELSE IF (timestamp_fields = <<>> /\ truthy(start_datetime))
            \/ (timestamp_fields = <<>> /\ truthy(end_datetime))
    THEN Raised("ValueError")
    ELSE IF stick_to_dates
            /\ \/ truthy(start_datetime) /\ ~has_date_method(start_datetime)
               \/ truthy(end_datetime) /\ ~has_date_method(end_datetime)
    THEN Raised("AttributeError")
    ELSE LET s == IF stick_to_dates /\ truthy(start_datetime)
                  THEN date_of(start_datetime) ELSE start_datetime
             e == IF stick_to_dates /\ truthy(end_datetime)
                  THEN date_of(end_datetime) ELSE end_datetime
         IN  Returned(build_where_clause(s, e, timestamp_fields))

(***************************************************************************)
(* The store's side of a query: how it reads the clause.                   *)
(***************************************************************************)
\* the point in time a rendered bound denotes; a bare date is its midnight
timestamp_of(lit) == [day |-> lit.day, sec |-> lit.sec, us |-> lit.us]

compare(a, op, b) ==
    IF op = ">=" THEN ts_ge(a, b)
    ELSE IF op = ">" THEN ts_lt(b, a)
    ELSE IF op = "<" THEN ts_lt(a, b)
    ELSE IF op = "<=" THEN ts_ge(b, a)
    ELSE TRUE

term_holds(row, t) ==
    /\ compare(row[t.field], t.lower, timestamp_of(t.from))
    /\ compare(row[t.field], t.upper, timestamp_of(t.to))

\* a statement "... FROM table" followed by the clause parses when the clause is
\* empty or begins with WHERE
well_formed(w) == w.head \in {"", " WHERE "}

row_matches(row, w) ==
    IF w.head = "" THEN TRUE
    ELSE IF w.join = " OR "
    THEN \E i \in 1..Len(w.terms) : term_holds(row, w.terms[i])
    ELSE \A i \in 1..Len(w.terms) : term_holds(row, w.terms[i])

select_rows(rows, w) == {r \in rows : row_matches(r, w)}


(***************************************************************************)
(* Key values.  A key is a Python value: an int, a UUID or a str; v is its *)
(* printed text.                                                           *)
(***************************************************************************)
IntKey(text) == [t |-> "int", v |-> text]
UUIDKey(text) == [t |-> "UUID", v |-> text]
StrKey(text) == [t |-> "str", v |-> text]

\* format_id that keeps every value as it is
format_id_raw(id) == id

\* find_orphans.format_id: an int is kept, everything else becomes its str()
format_id(id) == IF id.t = "int" THEN id ELSE StrKey(id.v)

\* format_primary_key that quotes every value
format_primary_key_quoted(k) == [quoted |-> TRUE, text |-> k.v]

\* remove_orphans_from_target.format_primary_key: the literal of the IN list,
\* an int bare, everything else between single quotes
format_primary_key(k) ==
    IF k.t = "int" THEN [quoted |-> FALSE, text |-> k.v]
    ELSE [quoted |-> TRUE, text |-> k.v]

\* the store's side of "key IN (...)": a bare literal is a number and equals an
\* int key, a quoted literal is a string and equals a str or UUID key of that text
key_in(id, literals) ==
    \E l \in literals : /\ l.text = id.v
                        /\ l.quoted = (id.t # "int")

(***************************************************************************)
(* DataClient: one store.  A running computation carries the two stores    *)
(* and the trace of what was issued and called so far.                     *)
(***************************************************************************)
Stores(src, tgt) == [source |-> src, target |-> tgt]

Done(st, n, ids) == [err |-> "none", ret |-> n, ids |-> ids, st |-> st]

\* an event recorded ahead of what was recorded before it
Issue_first(st, ev) == [st EXCEPT !.trace = <<ev>> \o @]

\* an event of the computation, recorded after those before it
Issue(st, ev) == [st EXCEPT !.trace = Append(@, ev)]

\* engine.execute: the statement reaches the store, which serves st.healthy more
\* statements before it fails (Forever: it never fails); a store that is down
\* raises its error to the caller
Forever == 0 - 1

\* a store that serves every statement
down_never(st) == FALSE

down(st) == st.healthy = 0
execute(st, ev) ==
    [st EXCEPT !.trace = Append(@, ev), !.healthy = IF @ > 0 THEN @ - 1 ELSE @]

Fail(st, e) == [err |-> e, ret |-> 0, ids |-> {}, st |-> st]

\* DataClient.fetch_rows / DataClient.query of a SELECT ... FROM table <clause>
fetch_rows(st, which, w) ==
    LET st1 == execute(st, [op |-> "select", store |-> which, where |-> w])
    IN  IF down(st) THEN Fail(st1, "StoreError")
        ELSE IF ~well_formed(w) THEN Fail(st1, "QueryError")
        ELSE Done(st1, 0, {r.id : r \in select_rows(st.db[which], w)})

\* one statement after another: the value v of the first, then the rest F of the
\* body, which reads it
Then(v, F(_)) == CHOOSE y \in {F(x) : x \in {v}} : TRUE

\* DataClient.count
count(st, which, start_datetime, end_datetime, timestamp_fields, stick_to_dates) ==
    Then(construct_where_clause_from_timerange(
             start_datetime, end_datetime, timestamp_fields, stick_to_dates),
         LAMBDA c :
    IF c.err # "none" THEN Fail(st, c.err)
    ELSE Then(execute(st, [op |-> "count", store |-> which, where |-> c.where]),
         LAMBDA st1 :
    IF down(st) THEN Fail(st1, "StoreError")
    ELSE IF ~well_formed(c.where) THEN Fail(st1, "QueryError")
    ELSE Done(st1, Cardinality(select_rows(st.db[which], c.where)), {})))

\* a DELETE that is issued and removes nothing
delete_rows_nothing(st, which, literals) ==
    Done(Issue(st, [op |-> "delete", store |-> which, keys |-> literals]), 0, {})

\* a DELETE that removes the rows of these keys from both stores
delete_rows_both(st, which, literals) ==
    LET st1 == execute(st, [op |-> "delete", store |-> which, keys |-> literals])
    IN  Done([st1 EXCEPT !.db = [w \in {"source", "target"} |->
                                    {r \in st.db[w] : ~key_in(r.id, literals)}]], 0, {})

\* DataClient.query of the DELETE statement
delete_rows(st, which, literals) ==
    LET kept == {r \in st.db[which] : ~key_in(r.id, literals)}
        st1 == execute(st, [op |-> "delete", store |-> which, keys |-> literals])
    IN  IF down(st) THEN Fail(st1, "StoreError")
        ELSE Done([st1 EXCEPT !.db[which] = kept], 0, {})

(***************************************************************************)
(* ELTDBPair                                                               *)
(***************************************************************************)
compare_counts(st, start_datetime, end_datetime, timestamp_fields, stick_to_dates) ==
    Then(count(st, "target", start_datetime, end_datetime, timestamp_fields, stick_to_dates),
         LAMBDA t :
    IF t.err # "none" THEN t
    ELSE Then(count(t.st, "source", start_datetime, end_datetime,
                    timestamp_fields, stick_to_dates),
         LAMBDA s :
    IF s.err # "none" THEN s
    ELSE Done(s.st, t.ret - s.ret, {})))

\* the id comparison is never skipped
skip_id_comparison_never(where_clause, count_diff) == FALSE

\* lines 220-230: the count comparison that may skip the id comparison
skip_id_comparison(where_clause, count_diff) ==
    where_clause.head # "" /\ count_diff = 0

find_orphans(st, start_datetime, end_datetime, timestamp_fields, stick_to_dates) ==
    Then(construct_where_clause_from_timerange(
             start_datetime, end_datetime, timestamp_fields, stick_to_dates),
         LAMBDA c :
    IF c.err # "none" THEN Fail(st, c.err)
    ELSE Then(IF c.where.head # ""
              THEN compare_counts(st, start_datetime, end_datetime,
                                  timestamp_fields, stick_to_dates)
              ELSE Done(st, 0, {}),
         LAMBDA d :
    IF d.err # "none" THEN d
    ELSE IF skip_id_comparison(c.where, d.ret) THEN Done(d.st, 0, {})
    ELSE Then(fetch_rows(d.st, "target", c.where),
         LAMBDA t :
    IF t.err # "none" THEN t
    ELSE Then(fetch_rows(t.st, "source", c.where),
         LAMBDA s :
    IF s.err # "none" THEN s
    ELSE Done(s.st, 0, {format_id(id) : id \in t.ids} \ {format_id(id) : id \in s.ids})))))

remove_orphans_from_target(st, start_datetime, end_datetime, timestamp_fields, stick_to_dates) ==
    Then(find_orphans(Issue(st, [op |-> "call", fn |-> "remove_orphans_from_target",
                                 start |-> start_datetime, end |-> end_datetime]),
                      start_datetime, end_datetime, timestamp_fields, stick_to_dates),
         LAMBDA o :
    IF o.err # "none" THEN o
    ELSE Then(Cardinality(o.ids),
         LAMBDA num_orphans :
         Then({format_primary_key(k) : k \in o.ids},
         LAMBDA orphan_ids_csv :
    IF orphan_ids_csv = {}
    THEN Done(Issue(o.st, [op |-> "return", fn |-> "remove_orphans_from_target",
                           ret |-> num_orphans]), num_orphans, o.ids)
    ELSE Then(delete_rows(o.st, "target", orphan_ids_csv),
         LAMBDA q :
    IF q.err # "none" THEN q
    ELSE Done(Issue(q.st, [op |-> "return", fn |-> "remove_orphans_from_target",
                           ret |-> num_orphans]), num_orphans, o.ids)))))


\* line 295: the default of min_segment_size, datetime.timedelta(seconds=10)
default_min_segment_size == timedelta(0, 10, 0)

\* lines 303-323: a bound that is not set is read from the target, the least (start)
\* or greatest (end) of the per-column MIN / MAX values; None when the table is empty
least(ts) == CHOOSE x \in ts : \A y \in ts : ts_ge(y, x)
greatest(ts) == CHOOSE x \in ts : \A y \in ts : ts_ge(x, y)
column_values(rows, timestamp_fields) ==
    {r[timestamp_fields[i]] : r \in rows, i \in 1..Len(timestamp_fields)}

fetch_bound(st, which_bound, timestamp_fields) ==
    LET st1 == execute(st, [op |-> "minmax", store |-> "target", bound |-> which_bound])
        vals == column_values(st.db.target, timestamp_fields)
    IN  IF down(st) THEN Fail(st1, "StoreError")
        ELSE IF timestamp_fields = <<>> THEN Fail(st1, "QueryError")
        ELSE IF vals = {} /\ Len(timestamp_fields) > 1 THEN Fail(st1, "TypeError")
        ELSE [err |-> "none", st |-> st1,
              val |-> IF vals = {} THEN None
                      ELSE IF which_bound = "MIN" THEN least(vals) ELSE greatest(vals)]

avg_datetime(start, end) == time_add(start, timedelta_half(time_sub(end, start)))

\* the exit condition without the test of the segment's size
base_case_A_degenerate(start, halfway, end, min_segment_size) ==
    start = halfway \/ end = halfway

\* line 368: the exit condition of a degenerate or minimal segment
base_case_A(start, halfway, end, min_segment_size) ==
    \/ start = halfway
    \/ end = halfway
    \/ timedelta_lt(time_sub(halfway, start), min_segment_size)

\* line 377
base_case_B(count1, count2) == count1 = 0 /\ count2 = 0

\* base case C taken when either count is below the threshold
base_case_C_either(count1, count2, thres) == count1 < thres \/ count2 < thres

\* line 379
base_case_C(count1, count2, thres) == count1 < thres /\ count2 < thres

\* the recursion condition with a count above, not at, the threshold
recursion_condition_strict(count1, count2, thres) == count1 > thres \/ count2 > thres

\* line 397
recursion_condition(count1, count2, thres) == count1 >= thres \/ count2 >= thres

\* lines 368-416: the case an invocation takes, the conditions tested in the order of
\* the code; "none" is the fall-through to the last return
case_taken(start, halfway, end, count1, count2, thres, min_segment_size) ==
    IF base_case_A(start, halfway, end, min_segment_size) THEN "A"
    ELSE IF base_case_B(count1, count2) THEN "B"
    ELSE IF base_case_C(count1, count2, thres) THEN "C"
    ELSE IF recursion_condition(count1, count2, thres) THEN "recursive"
    ELSE "none"

\* lines 398-414: what the recursive calls are given as min_segment_size
passed_min_segment_size(min_segment_size) == default_min_segment_size

\* what an invocation records of its case analysis
case_event(name, depth, start, halfway, end, count1, count2, thres, min_segment_size) ==
    [op |-> "case", name |-> name, depth |-> depth,
     start |-> start, halfway |-> halfway, end |-> end,
     count1 |-> count1, count2 |-> count2, thres |-> thres,
     min_segment_size |-> min_segment_size]

\* the return of an invocation with the number of orphans removed
returned(x, depth, n) ==
    Done(Issue(x, [op |-> "return", fn |-> "remove_orphans_from_target_with_binary_search",
                   depth |-> depth, ret |-> n]), n, {})

RECURSIVE remove_orphans_from_target_with_binary_search(_, _, _, _, _, _, _, _)
remove_orphans_from_target_with_binary_search(st, start_datetime, end_datetime, timestamp_fields, stick_to_dates, thres, min_segment_size, depth) ==
    Then(Issue(st, [op |-> "call",
                    fn |-> "remove_orphans_from_target_with_binary_search",
                    start |-> start_datetime, end |-> end_datetime,
                    thres |-> thres, min_segment_size |-> min_segment_size,
                    depth |-> depth]),
         LAMBDA st0 :
    Then(IF truthy(start_datetime)
         THEN [err |-> "none", st |-> st0, val |-> start_datetime]
         ELSE fetch_bound(st0, "MIN", timestamp_fields),
         LAMBDA lo :
    IF lo.err # "none" THEN Fail(lo.st, lo.err)
    ELSE Then(IF truthy(end_datetime)
              THEN [err |-> "none", st |-> lo.st, val |-> end_datetime]
              ELSE fetch_bound(lo.st, "MAX", timestamp_fields),
         LAMBDA hi :
    IF hi.err # "none" THEN Fail(hi.st, hi.err)
    ELSE IF stick_to_dates
            /\ \/ truthy(lo.val) /\ ~has_date_method(lo.val)
               \/ truthy(hi.val) /\ ~has_date_method(hi.val)
    THEN Fail(hi.st, "AttributeError")
    ELSE Then(IF stick_to_dates /\ truthy(lo.val) THEN date_of(lo.val) ELSE lo.val,
         LAMBDA start :
         Then(IF stick_to_dates /\ truthy(hi.val) THEN date_of(hi.val) ELSE hi.val,
         LAMBDA end :
    IF ~truthy(start) \/ ~truthy(end) \/ start.k # end.k THEN Fail(hi.st, "TypeError")
    ELSE Then(avg_datetime(start, end),
         LAMBDA halfway :
         Then(IF start # halfway
              THEN count(hi.st, "target", start, halfway, timestamp_fields, stick_to_dates)
              ELSE Done(hi.st, 0, {}),
         LAMBDA c1 :
    IF c1.err # "none" THEN c1
    ELSE Then(IF end # halfway
              THEN count(c1.st, "target", halfway, end, timestamp_fields, stick_to_dates)
              ELSE Done(c1.st, 0, {}),
         LAMBDA c2 :
    IF c2.err # "none" THEN c2
    ELSE Then([name \in {"A", "B", "C", "recursive", "none"} |->
                  Issue(c2.st, case_event(name, depth, start, halfway, end,
                                          c1.ret, c2.ret, thres, min_segment_size))],
         LAMBDA case :
    Then(case_taken(start, halfway, end, c1.ret, c2.ret, thres, min_segment_size),
         LAMBDA taken :
    IF taken = "A"
    THEN Then(remove_orphans_from_target(
                  case["A"], start, end, timestamp_fields, stick_to_dates),
         LAMBDA whole :
         IF whole.err # "none" THEN whole
         ELSE returned(whole.st, depth, whole.ret))
    ELSE IF taken = "B"
    THEN returned(case["B"], depth, 0)
    ELSE IF taken = "C"
    THEN Then(remove_orphans_from_target(
                  case["C"], start, halfway, timestamp_fields, stick_to_dates),
         LAMBDA first :
         IF first.err # "none" THEN first
         ELSE Then(remove_orphans_from_target(
                       first.st, halfway, end, timestamp_fields, stick_to_dates),
              LAMBDA second :
              IF second.err # "none" THEN second
              ELSE returned(second.st, depth, first.ret + second.ret)))
    ELSE IF taken = "recursive"
    THEN Then(remove_orphans_from_target_with_binary_search(
                  case["recursive"], start, halfway, timestamp_fields, stick_to_dates,
                  thres, passed_min_segment_size(min_segment_size), depth + 1),
         LAMBDA left :
         IF left.err # "none" THEN left
         ELSE Then(remove_orphans_from_target_with_binary_search(
                       left.st, halfway, end, timestamp_fields, stick_to_dates,
                       thres, passed_min_segment_size(min_segment_size), depth + 1),
              LAMBDA right :
              IF right.err # "none" THEN right
              ELSE returned(right.st, depth, 0 + left.ret + right.ret)))
    ELSE returned(case["none"], depth, 0)))))))))))

(***************************************************************************)
(* The inputs: points in time, rows, datasets and arguments.               *)
(***************************************************************************)
\* midnight, one microsecond later, 40 and 80 seconds later, the next midnight
T0 == DT(0, 0, 0)
T1 == DT(0, 0, 1)
S40 == DT(0, 40, 0)
S80 == DT(0, 80, 0)
D1 == DT(1, 0, 0)
\* 40 seconds before the midnight T0, on the day before
Eve == DT(0 - 1, SecondsPerDay - 40, 0)
Times == {T0, T1, S40, S80}

Keys == {IntKey("1"), UUIDKey("a")}

\* a row of the table: its key and its two timestamp columns
Stamps == {<<T0, T0>>, <<S40, S40>>, <<T0, S40>>}
Rows == {[id |-> k, created |-> p[1], updated |-> p[2]] : k \in Keys, p \in Stamps}
Datasets == {d \in SUBSET Rows : Cardinality(d) <= MaxRows}
SourceDatasets == {d \in Datasets : Cardinality(d) <= 1}

FieldLists == {<<>>, <<"created">>, <<"created", "updated">>}
Bounds == Times \cup {D1, None}
SearchBounds == Times \cup {None}
SearchModes == {<<f, FALSE>> : f \in FieldLists} \cup {<<<<"created">>, TRUE>>}
Thresholds == 1..MaxThres
SegmentSizes == {timedelta(0, 0, 0), timedelta(2, 0, 0)}

NoArgs == [start |-> None, end |-> None, mid |-> None, fields |-> <<>>, stick |-> FALSE,
           thres |-> 0, min_segment_size |-> timedelta(0, 0, 0), which |-> "",
           healthy |-> Forever, count1 |-> 0, count2 |-> 0]
Range(s, e, f, d) == [NoArgs EXCEPT !.start = s, !.end = e, !.fields = f, !.stick = d]

\* what the last call was given and gave back: its error, count, set of ids, clause
\* and selected rows, the trace of what it issued, and the stores it started from
NoCall == [op |-> "none", args |-> NoArgs, err |-> "none", ret |-> 0, ids |-> {},
           where |-> EmptyClause, sel |-> <<>>, trace |-> <<>>, pre |-> Stores({}, {})]

Start(src, tgt) == [db |-> Stores(src, tgt), trace |-> <<>>, healthy |-> Forever]

\* the same with stores that serve k statements and fail at the next one
StartFailing(src, tgt, k) == [Start(src, tgt) EXCEPT !.healthy = k]

\* the state after a call: the stores as the call left them and what it gave back
Outcome(op, a, r) ==
    /\ source' = r.st.db.source
    /\ target' = r.st.db.target
    /\ last' = [op |-> op, args |-> a, err |-> r.err, ret |-> r.ret, ids |-> r.ids,
                where |-> EmptyClause, sel |-> <<>>, trace |-> r.st.trace,
                pre |-> Stores(source, target)]

(***************************************************************************)
(* The operations a caller may invoke, one call at a time.                 *)
(***************************************************************************)
WhereClause ==
    /\ last.op = "none"
    /\ \E s \in Bounds, e \in Bounds, f \in FieldLists, d \in BOOLEAN :
          LET c == construct_where_clause_from_timerange(s, e, f, d)
          IN  /\ last' = [NoCall EXCEPT !.op = "where", !.args = Range(s, e, f, d),
                                        !.err = c.err, !.where = c.where,
                                        !.pre = Stores(source, target)]
              /\ UNCHANGED <<source, target>>

\* the builder applied to a range and to its two halves at a point in between,
\* each clause then selecting among the rows of the target
Bisect ==
    /\ last.op = "none"
    /\ \E s \in Bounds, m \in Bounds, e \in Bounds, f \in FieldLists :
          LET l == construct_where_clause_from_timerange(s, m, f, FALSE)
              r == construct_where_clause_from_timerange(m, e, f, FALSE)
              p == construct_where_clause_from_timerange(s, e, f, FALSE)
          IN  /\ truthy(s) /\ truthy(m) /\ truthy(e)
              /\ ts_lt(s, m) /\ ts_lt(m, e)
              /\ f # <<>>
              /\ last' = [NoCall EXCEPT !.op = "bisect",
                                        !.args = [Range(s, e, f, FALSE) EXCEPT !.mid = m],
                                        !.err = p.err, !.where = p.where,
                                        !.sel = <<select_rows(target, l.where),
                                                  select_rows(target, r.where),
                                                  select_rows(target, p.where)>>,
                                        !.pre = Stores(source, target)]
              /\ UNCHANGED <<source, target>>

Count ==
    /\ last.op = "none"
    /\ \E w \in {"source", "target"}, s \in Bounds, e \in Bounds, f \in FieldLists, d \in BOOLEAN :
          Outcome("count", [Range(s, e, f, d) EXCEPT !.which = w],
                  count(Start(source, target), w, s, e, f, d))

CompareCounts ==
    /\ last.op = "none"
    /\ \E s \in Bounds, e \in Bounds, f \in FieldLists, d \in BOOLEAN :
          Outcome("compare_counts", Range(s, e, f, d),
                  compare_counts(Start(source, target), s, e, f, d))

FindOrphans ==
    /\ last.op = "none"
    /\ \E s \in Bounds, e \in Bounds, f \in FieldLists, d \in BOOLEAN :
          Outcome("find_orphans", Range(s, e, f, d),
                  find_orphans(Start(source, target), s, e, f, d))

RemoveOrphansFromTarget ==
    /\ last.op = "none"
    /\ \E s \in Bounds, e \in Bounds, f \in FieldLists, d \in BOOLEAN :
          Outcome("remove_orphans_from_target", Range(s, e, f, d),
                  remove_orphans_from_target(Start(source, target), s, e, f, d))

RemoveOrphansFromTargetWithBinarySearch ==
    /\ last.op = "none"
    /\ \E s \in SearchBounds, e \in SearchBounds, fd \in SearchModes,
          t \in Thresholds, m \in SegmentSizes :
          Outcome("remove_orphans_from_target_with_binary_search",
                  [Range(s, e, fd[1], fd[2]) EXCEPT !.thres = t, !.min_segment_size = m],
                  remove_orphans_from_target_with_binary_search(
                      Start(source, target), s, e, fd[1], fd[2], t, m, 0))

\* lines 340-416 without the stores: the case analysis of one invocation over the
\* bounds, the counts of the two halves, the threshold and the least segment size
CaseAnalysis ==
    /\ last.op = "none"
    /\ \E e \in Times, c1 \in 0..MaxCount, c2 \in 0..MaxCount,
          t \in (0 - 1)..MaxThres, m \in SegmentSizes :
          LET halfway == avg_datetime(T0, e)
              taken == case_taken(T0, halfway, e, c1, c2, t, m)
          IN  /\ last' = [NoCall EXCEPT
                            !.op = "case_analysis",
                            !.args = [Range(T0, e, <<>>, FALSE) EXCEPT
                                         !.mid = halfway, !.thres = t,
                                         !.min_segment_size = m,
                                         !.count1 = c1, !.count2 = c2],
                            !.trace = <<case_event(taken, 0, T0, halfway, e, c1, c2, t, m)>>,
                            !.pre = Stores(source, target)]
              /\ UNCHANGED <<source, target>>

\* the binary-search removal over ranges that begin on one day and end on the next,
\* with and without the truncation to dates
RemoveOrphansOverDays ==
    /\ last.op = "none"
    /\ \E s \in {Eve}, e \in {S40, S80}, d \in BOOLEAN, t \in Thresholds, m \in SegmentSizes :
          Outcome("remove_orphans_from_target_with_binary_search",
                  [Range(s, e, <<"created">>, d) EXCEPT !.thres = t, !.min_segment_size = m],
                  remove_orphans_from_target_with_binary_search(
                      Start(source, target), s, e, <<"created">>, d, t, m, 0))

\* the binary-search removal over stores that fail after k statements
RemoveOrphansWithFailingStore ==
    /\ last.op = "none"
    /\ \E s \in {T0, None}, e \in {S80, None}, t \in Thresholds, m \in SegmentSizes,
          k \in 0..MaxHealthy :
          Outcome("remove_orphans_from_target_with_binary_search",
                  [Range(s, e, <<"created">>, FALSE)
                      EXCEPT !.thres = t, !.min_segment_size = m, !.healthy = k],
                  remove_orphans_from_target_with_binary_search(
                      StartFailing(source, target, k), s, e, <<"created">>, FALSE, t, m, 0))

\* the caller takes the result; the stores stay as the call left them
Return ==
    /\ last.op # "none"
    /\ last' = NoCall
    /\ UNCHANGED <<source, target>>

Init ==
    /\ source \in SourceDatasets
    /\ target \in Datasets
    /\ last = NoCall

\* the predicate builder and the flat operations of the endpoints and of the pair
Next ==
    \/ WhereClause
    \/ Count
    \/ CompareCounts
    \/ FindOrphans
    \/ RemoveOrphansFromTarget
    \/ Return

Spec == Init /\ [][Next]_vars

\* the binary-search removal
NextSearch ==
    \/ RemoveOrphansFromTargetWithBinarySearch
    \/ Return

SpecSearch == Init /\ [][NextSearch]_vars

\* the operations of the pair, in any order
NextPair ==
    \/ CompareCounts
    \/ FindOrphans
    \/ RemoveOrphansFromTarget
    \/ RemoveOrphansFromTargetWithBinarySearch
    \/ Return

SpecPair == Init /\ [][NextPair]_vars

\* the case analysis alone
NextCases ==
    \/ CaseAnalysis
    \/ Return

SpecCases == Init /\ [][NextCases]_vars

\* the binary-search removal over ranges of days
NextDays ==
    \/ RemoveOrphansOverDays
    \/ Return

SpecDays == Init /\ [][NextDays]_vars

\* the binary-search removal over failing stores
NextFailing ==
    \/ RemoveOrphansWithFailingStore
    \/ Return

SpecFailing == Init /\ [][NextFailing]_vars

\* the predicate builder alone, over the target's rows
NextWhere ==
    \/ WhereClause
    \/ Bisect
    \/ Return

SpecWhere == Init /\ [][NextWhere]_vars


(***************************************************************************)
(* Properties.                                                             *)
(***************************************************************************)
\* the normal form of a key: an integer as it is, anything else as its string
Normal(id) == IF id.t = "int" THEN id ELSE [t |-> "str", v |-> id.v]
NormalKeys(rows) == {Normal(r.id) : r \in rows}

\* the clause of the last call's range, and the rows of a store it selects
LastClause ==
    construct_where_clause_from_timerange(
        last.args.start, last.args.end, last.args.fields, last.args.stick)
InRange(rows) == select_rows(rows, LastClause.where)

\* the keys the target holds in the range and the source does not hold in it
OrphansInRange == NormalKeys(InRange(last.pre.target)) \ NormalKeys(InRange(last.pre.source))

CountsAgree == Cardinality(InRange(last.pre.target)) = Cardinality(InRange(last.pre.source))

StoreOps == {"count", "select", "delete", "minmax"}
Issued(trace, ops) == {i \in 1..Len(trace) : trace[i].op \in ops}

RangeGiven == truthy(last.args.start) \/ truthy(last.args.end)

\* ------------------------------------------------------------------ C5
\* C5 as stated: for start < mid < end and every non-empty list of timestamp columns,
\* the rows matched by the predicate of [start, mid) and those matched by the
\* predicate of [mid, end) are disjoint, and their union is the rows matched by the
\* predicate of [start, end).
C5_HalvesPartitionTheRange ==
    last.op = "bisect" =>
        /\ last.sel[1] \cap last.sel[2] = {}
        /\ last.sel[1] \cup last.sel[2] = last.sel[3]

\* C5 amended: the union of the rows matched by the two halves is the rows matched by
\* the whole range for every non-empty list of timestamp columns (no gap); the two
\* halves are disjoint when the list holds one column (no overlap).
C5_NoGapAndNoOverlapOnOneColumn ==
    last.op = "bisect" =>
        /\ last.sel[1] \cup last.sel[2] = last.sel[3]
        /\ Len(last.args.fields) = 1 => last.sel[1] \cap last.sel[2] = {}

C5_Witness ==
    /\ last.op = "bisect"
    /\ Len(last.args.fields) = 1
    /\ last.sel[1] # {}
    /\ last.sel[2] # {}

\* ------------------------------------------------------------------ C6
\* C6: with date truncation requested, the builder fails with a ValueError whenever
\* start and end fall on the same date, also when the two timestamps differ; no
\* predicate is returned.
C6_SameDateIsRejected ==
    (/\ last.op = "where"
     /\ last.args.stick
     /\ truthy(last.args.start) /\ truthy(last.args.end)
     /\ date_of(last.args.start) = date_of(last.args.end))
    => (last.err = "ValueError" /\ last.where = EmptyClause)

\* ------------------------------------------------------------------ C8
\* C8: with neither bound given the builder returns the empty predicate and raises
\* nothing, whatever the timestamp columns and the date-truncation flag.
C8_NoBoundsGiveTheEmptyPredicate ==
    (/\ last.op = "where"
     /\ ~truthy(last.args.start) /\ ~truthy(last.args.end))
    => (last.err = "none" /\ last.where = EmptyClause)

\* ------------------------------------------------------------------ C7
\* C7: a start or end bound with no timestamp column makes the builder, count,
\* compare_counts, find_orphans and remove_orphans_from_target fail with a ValueError
\* before anything is issued to either store; both stores are left as they were.
C7_BoundWithoutColumnsFailsBeforeAnyQuery ==
    (/\ last.op \in {"where", "count", "compare_counts", "find_orphans",
                     "remove_orphans_from_target"}
     /\ RangeGiven
     /\ last.args.fields = <<>>)
    => /\ last.err = "ValueError"
       /\ last.where = EmptyClause
       /\ Issued(last.trace, StoreOps) = {}
       /\ source = last.pre.source
       /\ target = last.pre.target

C7_Witness ==
    /\ last.op = "remove_orphans_from_target"
    /\ truthy(last.args.start)
    /\ last.args.fields = <<>>
    /\ last.err = "ValueError"
    /\ NormalKeys(last.pre.target) \ NormalKeys(last.pre.source) # {}

\* ------------------------------------------------------------------ C4
\* C4 as stated: find_orphans returns exactly the normalized keys that occur among
\* the target rows matching the range and not among the source rows matching it,
\* for every dataset and every range.
C4_OrphansAreTheSetDifference ==
    (last.op = "find_orphans" /\ last.err = "none") => last.ids = OrphansInRange

\* C4 amended: for no range, a start-only range and a two-bound range, find_orphans
\* returns the normalized keys of the target rows matching the range that are not
\* keys of source rows matching it, except that with a range given and equal numbers
\* of matching target and source rows it returns the empty set.
C4_SetDifferenceUnlessCountsAgree ==
    (/\ last.op = "find_orphans"
     /\ LastClause.err = "none"
     /\ truthy(last.args.start) \/ ~truthy(last.args.end))
    => /\ last.err = "none"
       /\ last.ids = IF LastClause.where # EmptyClause /\ CountsAgree
                     THEN {} ELSE OrphansInRange

C4_Witness ==
    /\ last.op = "find_orphans"
    /\ last.err = "none"
    /\ LastClause.where # EmptyClause
    /\ [t |-> "str", v |-> "a"] \in last.ids
    /\ last.ids = OrphansInRange

\* ------------------------------------------------------------------ C3
\* what a second call with the same arguments gives, made in the state the last left
SecondRemoval ==
    remove_orphans_from_target(Start(source, target), last.args.start, last.args.end,
                               last.args.fields, last.args.stick)

SecondRemovalFindsNothing ==
    /\ SecondRemoval.err = "none"
    /\ SecondRemoval.ret = 0
    /\ Issued(SecondRemoval.st.trace, {"delete"}) = {}
    /\ SecondRemoval.st.db.target = target

\* C3 as stated: after remove_orphans_from_target returns, the same call made again
\* returns 0 and issues no delete; and when the target holds an orphan in the range
\* the first call returns a positive count.
C3_SecondCallZeroFirstPositive ==
    (last.op = "remove_orphans_from_target" /\ last.err = "none")
    => /\ SecondRemovalFindsNothing
       /\ OrphansInRange # {} => last.ret > 0

\* C3 amended: after remove_orphans_from_target returns, the same call made again
\* returns 0 and issues no delete; the first call returns a positive count when the
\* target holds an orphan in the range and either no range is given or the numbers
\* of target and source rows matching the range differ.
C3_SecondCallZeroFirstPositiveUnlessCountsAgree ==
    (last.op = "remove_orphans_from_target" /\ last.err = "none")
    => /\ SecondRemovalFindsNothing
       /\ (OrphansInRange # {} /\ (LastClause.where = EmptyClause \/ ~CountsAgree))
              => last.ret > 0

C3_Witness ==
    /\ last.op = "remove_orphans_from_target"
    /\ last.err = "none"
    /\ LastClause.where # EmptyClause
    /\ last.ret > 0
    /\ SecondRemovalFindsNothing

\* ------------------------------------------------------------------ C2
FirstOrphans ==
    find_orphans(Start(last.pre.source, last.pre.target), last.args.start,
                 last.args.end, last.args.fields, last.args.stick).ids

\* C2: remove_orphans_from_target returns the size of the set find_orphans computes
\* for the range; with a non-empty set it issues exactly one delete, against the
\* target, after which the keys of the target are its former keys less that set;
\* with an empty set it returns 0, issues no delete and leaves the target as it was.
C2_RemovalDeletesTheOrphansOnce ==
    (last.op = "remove_orphans_from_target" /\ last.err = "none")
    => LET deletes == Issued(last.trace, {"delete"})
       IN  /\ last.ret = Cardinality(FirstOrphans)
           /\ source = last.pre.source
           /\ FirstOrphans # {} =>
                 /\ Cardinality(deletes) = 1
                 /\ \A i \in deletes : last.trace[i].store = "target"
                 /\ NormalKeys(target) = NormalKeys(last.pre.target) \ FirstOrphans
           /\ FirstOrphans = {} =>
                 /\ last.ret = 0
                 /\ deletes = {}
                 /\ target = last.pre.target

C2_Witness ==
    /\ last.op = "remove_orphans_from_target"
    /\ last.err = "none"
    /\ last.ret = 1
    /\ Cardinality(last.pre.target) = 2
    /\ Cardinality(target) = 1
    /\ NormalKeys(target) \subseteq NormalKeys(source)


\* ------------------------------------------------------------------ C1
SearchFn == "remove_orphans_from_target_with_binary_search"
FlatFn == "remove_orphans_from_target"
Calls(trace, fn) == {i \in 1..Len(trace) : trace[i].op = "call" /\ trace[i].fn = fn}

\* the flat removal over the bounds s, e, started from the stores the last call started from
FlatFromSameState(s, e) ==
    remove_orphans_from_target(Start(last.pre.source, last.pre.target), s, e,
                               last.args.fields, last.args.stick)

\* C1: over a range [start, end) with a timestamp column and a threshold >= 1, the
\* binary-search removal returns the total that one flat removal over the same range,
\* started from the same stores, returns.
C1_SumLaw ==
    (/\ last.op = SearchFn
     /\ truthy(last.args.start) /\ truthy(last.args.end)
     /\ last.args.fields # <<>>
     /\ ~last.args.stick
     /\ last.args.thres >= 1)
    => /\ last.err = "none"
       /\ FlatFromSameState(last.args.start, last.args.end).err = "none"
       /\ last.ret = FlatFromSameState(last.args.start, last.args.end).ret

\* ------------------------------------------------------------------ C9
\* C9: when min_segment_size is larger than end - start, the outermost invocation
\* makes no recursive call and takes no case but A; when it reaches the case analysis
\* it calls remove_orphans_from_target exactly once, over [start, end), and ends as
\* that call ends (same count or error, same target); a call with a timestamp column
\* and without date truncation always reaches it.
C9_LargeMinSegmentDelegatesOnce ==
    (/\ last.op = SearchFn
     /\ truthy(last.args.start) /\ truthy(last.args.end)
     /\ timedelta_lt(time_sub(last.args.end, last.args.start), last.args.min_segment_size))
    => LET tr == last.trace
           cases == Issued(tr, {"case"})
           flat == Calls(tr, FlatFn)
       IN  /\ Cardinality(Calls(tr, SearchFn)) = 1
           /\ \A i \in cases : tr[i].name = "A"
           /\ Cardinality(flat) <= 1
           /\ \A i \in cases :
                 /\ Cardinality(flat) = 1
                 /\ \A j \in flat : j = i + 1 /\ tr[j].start = tr[i].start
                                              /\ tr[j].end = tr[i].end
                 /\ last.err = FlatFromSameState(tr[i].start, tr[i].end).err
                 /\ last.ret = FlatFromSameState(tr[i].start, tr[i].end).ret
                 /\ target = FlatFromSameState(tr[i].start, tr[i].end).st.db.target
           /\ (last.args.fields # <<>> /\ ~last.args.stick) =>
                 /\ cases # {}
                 /\ \A i \in cases : tr[i].start = last.args.start
                                     /\ tr[i].end = last.args.end

C9_Witness ==
    /\ last.op = SearchFn
    /\ last.args.start = T0 /\ last.args.end = S80
    /\ last.args.min_segment_size = timedelta(2, 0, 0)
    /\ last.args.thres = 1
    /\ last.err = "none"
    /\ last.ret = 2
    /\ \E i \in Issued(last.trace, {"case"}) :
          /\ last.trace[i].name = "A"
          /\ last.trace[i].count1 >= 1
          /\ last.trace[i].count2 >= 1

\* ------------------------------------------------------------------ C10
IsSearchCall(ev, depth, start, end, thres) ==
    /\ ev.op = "call" /\ ev.fn = SearchFn
    /\ ev.depth = depth /\ ev.start = start /\ ev.end = end /\ ev.thres = thres

IsSearchReturn(ev, depth) == ev.op = "return" /\ ev.fn = SearchFn /\ ev.depth = depth

\* the first return of an invocation of the given depth after position i
NextReturn(trace, i, depth) ==
    CHOOSE j \in (i + 1)..Len(trace) :
        /\ IsSearchReturn(trace[j], depth)
        /\ \A k \in (i + 1)..(j - 1) : ~IsSearchReturn(trace[k], depth)

\* base case A does not apply to the invocation whose case analysis is event c
NotBaseCaseA(c) ==
    /\ c.start # c.halfway
    /\ c.end # c.halfway
    /\ ~timedelta_lt(time_sub(c.halfway, c.start), c.min_segment_size)

\* the invocation whose case analysis is at position i recursed on both halves with
\* its own threshold and returned the sum of the two results
RecursedOnBothHalves(trace, i) ==
    LET c == trace[i]
        j == NextReturn(trace, i, c.depth + 1)
        k == NextReturn(trace, j, c.depth + 1)
    IN  /\ c.name = "recursive"
        /\ IsSearchCall(trace[i + 1], c.depth + 1, c.start, c.halfway, c.thres)
        /\ IsSearchCall(trace[j + 1], c.depth + 1, c.halfway, c.end, c.thres)
        /\ k + 1 <= Len(trace)
        /\ IsSearchReturn(trace[k + 1], c.depth)
        /\ trace[k + 1].ret = trace[j].ret + trace[k].ret

\* two target rows with different keys, neither key in the source, one matching
\* [start, halfway) and the other [halfway, end); the target holds no other key
TwoOrphansInDifferentHalves(c) ==
    LET l == construct_where_clause_from_timerange(
                 c.start, c.halfway, last.args.fields, last.args.stick).where
        r == construct_where_clause_from_timerange(
                 c.halfway, c.end, last.args.fields, last.args.stick).where
    IN  /\ Cardinality(NormalKeys(last.pre.target)) = 2
        /\ NormalKeys(last.pre.target) \cap NormalKeys(last.pre.source) = {}
        /\ \E a \in select_rows(last.pre.target, l), b \in select_rows(last.pre.target, r) :
              a.id # b.id

HealthySearch ==
    remove_orphans_from_target_with_binary_search(
        Start(last.pre.source, last.pre.target), last.args.start, last.args.end,
        last.args.fields, last.args.stick, last.args.thres, last.args.min_segment_size, 0)

\* the rows the successful deletes of a trace (all but a failed last one) remove
DeletedBy(trace, rows) ==
    {r \in rows : \E i \in 1..(Len(trace) - 1) :
                     trace[i].op = "delete" /\ key_in(r.id, trace[i].keys)}

\* C11: when the stores fail at their (k+1)-th statement and the call issues that many,
\* the call ends with the store's error and returns no count; that statement is the
\* last thing the call does (k + 1 statements issued in all, none after the failure,
\* none repeated); up to it the call did what the call over healthy stores does; the
\* source is unchanged and the target lost only what the deletes before it removed.
\* A call that needs no more than k statements ends as over healthy stores.
C11_StoreFailurePropagates ==
    (last.op = SearchFn /\ last.args.healthy >= 0)
    => LET k == last.args.healthy
           h == HealthySearch
           tr == last.trace
       IN  IF Cardinality(Issued(h.st.trace, StoreOps)) > k
           THEN /\ last.err = "StoreError"
                /\ Cardinality(Issued(tr, StoreOps)) = k + 1
                /\ tr[Len(tr)].op \in StoreOps
                /\ tr = SubSeq(h.st.trace, 1, Len(tr))
                /\ source = last.pre.source
                /\ target = last.pre.target \ DeletedBy(tr, last.pre.target)
           ELSE /\ last.err = h.err
                /\ last.ret = h.ret
                /\ tr = h.st.trace
                /\ target = h.st.db.target

\* a delete of the first half fails; over healthy stores the second half deletes too
C11_Witness ==
    /\ last.op = SearchFn
    /\ last.args.healthy >= 0
    /\ last.err = "StoreError"
    /\ last.trace[Len(last.trace)].op = "delete"
    /\ target = last.pre.target
    /\ \E i \in Issued(last.trace, {"case"}) : last.trace[i].name = "C"
    /\ HealthySearch.err = "none"
    /\ HealthySearch.ret = 2
    /\ HealthySearch.st.db.target = {}


\* ------------------------------------------------------------------ C12
PairOps == {"compare_counts", "find_orphans", FlatFn, SearchFn}

\* the rows of the target that the deletes of a trace name by key
NamedByDeletes(trace, rows) ==
    {r \in rows : \E i \in Issued(trace, {"delete"}) :
                     trace[i].store = "target" /\ key_in(r.id, trace[i].keys)}

\* C12: whatever calls of the pair came before, a call of compare_counts, find_orphans,
\* remove_orphans_from_target or remove_orphans_from_target_with_binary_search leaves
\* the source as it was and issues only counts and selects against it; the target
\* gains and changes no row, and the rows it loses are those its deletes name by key.
C12_SourceUntouchedTargetOnlyDeleted ==
    (last.op \in PairOps)
    => /\ source = last.pre.source
       /\ \A i \in 1..Len(last.trace) :
             /\ last.trace[i].op \in StoreOps =>
                   last.trace[i].store \in {"source", "target"}
             /\ (last.trace[i].op \in StoreOps /\ last.trace[i].store = "source") =>
                   last.trace[i].op \in {"count", "select"}
       /\ target \subseteq last.pre.target
       /\ last.pre.target \ target = NamedByDeletes(last.trace, last.pre.target)

\* a binary-search removal that deleted some rows of the target and kept others,
\* next to a source that holds rows
C12_Witness ==
    /\ last.op = SearchFn
    /\ last.err = "none"
    /\ source # {}
    /\ target # {}
    /\ target # last.pre.target
    /\ Issued(last.trace, {"delete"}) # {}
    /\ \E i \in Issued(last.trace, {"select"}) : last.trace[i].store = "source"


\* ------------------------------------------------------------------ C13
\* the invocation called at position i of the trace reached its case analysis
ReachedCaseAnalysis(trace, i) ==
    \E j \in Issued(trace, {"case"}) :
        /\ j > i
        /\ trace[j].depth = trace[i].depth
        /\ \A k \in (i + 1)..(j - 1) : ~IsSearchCall(trace[k], trace[i].depth,
                                                     trace[k].start, trace[k].end, trace[k].thres)

\* C13: a binary-search removal over a range that begins on one day and ends on a
\* later one, with or without the truncation to dates, ends with a count; every
\* invocation of it takes base case A, B or C or recurses, and it recurses only on the
\* two halves [start, halfway) and [halfway, end) with start < halfway < end.
C13_TerminatesInBaseCases ==
    (/\ last.op = SearchFn
     /\ truthy(last.args.start) /\ truthy(last.args.end)
     /\ last.args.start.day < last.args.end.day
     /\ last.args.fields # <<>>)
    => /\ last.err = "none"
       /\ \A i \in Calls(last.trace, SearchFn) : ReachedCaseAnalysis(last.trace, i)
       /\ \A j \in Issued(last.trace, {"case"}) :
             /\ last.trace[j].name \in {"A", "B", "C", "recursive"}
             /\ last.trace[j].name = "recursive" =>
                   /\ ts_lt(last.trace[j].start, last.trace[j].halfway)
                   /\ ts_lt(last.trace[j].halfway, last.trace[j].end)


\* ------------------------------------------------------------------ C14
\* C14: for every start, halfway, end, counts >= 0, threshold (zero and negative
\* included) and least segment size, the case analysis takes exactly one of A, B, C
\* and recursive, the first in that order whose condition holds; it never falls
\* through.
C14_CaseAnalysisIsExhaustive ==
    (last.op = "case_analysis")
    => LET c == last.trace[1]
           A == base_case_A(c.start, c.halfway, c.end, c.min_segment_size)
           B == base_case_B(c.count1, c.count2)
           C == base_case_C(c.count1, c.count2, c.thres)
           R == recursion_condition(c.count1, c.count2, c.thres)
       IN  /\ c.name \in {"A", "B", "C", "recursive"}
           /\ c.name = "A" <=> A
           /\ c.name = "B" <=> (~A /\ B)
           /\ c.name = "C" <=> (~A /\ ~B /\ C)
           /\ c.name = "recursive" <=> (~A /\ ~B /\ ~C /\ R)

\* one count is exactly the threshold and the other below it: the recursive case
C14_Witness ==
    /\ last.op = "case_analysis"
    /\ last.args.count1 = last.args.thres
    /\ last.args.count2 < last.args.thres
    /\ last.trace[1].name = "recursive"


\* ------------------------------------------------------------------ C15
\* the stores of the selects a trace issued, in order
SelectedStores(trace) ==
    [i \in 1..Cardinality(Issued(trace, {"select"})) |->
        trace[CHOOSE j \in Issued(trace, {"select"}) :
                 Cardinality({k \in Issued(trace, {"select"}) : k <= j}) = i].store]

\* C15: find_orphans over a range whose predicate is not empty and whose target and
\* source counts are equal returns the empty set after the two counts and issues no
\* select; find_orphans without a range issues no count and selects the ids of the
\* target and then of the source.
C15_ZeroDeltaShortcut ==
    (last.op = "find_orphans" /\ LastClause.err = "none")
    => /\ (LastClause.where.head # "" /\ well_formed(LastClause.where) /\ CountsAgree)
          => /\ last.err = "none"
             /\ last.ids = {}
             /\ Issued(last.trace, {"select"}) = {}
             /\ Cardinality(Issued(last.trace, {"count"})) = 2
       /\ (~truthy(last.args.start) /\ ~truthy(last.args.end))
          => /\ last.err = "none"
             /\ Issued(last.trace, {"count"}) = {}
             /\ SelectedStores(last.trace) = <<"target", "source">>

\* equal counts over a range, in which the target holds a key the source lacks
C15_Witness ==
    /\ last.op = "find_orphans"
    /\ LastClause.err = "none"
    /\ RangeGiven
    /\ well_formed(LastClause.where)
    /\ CountsAgree
    /\ OrphansInRange # {}
    /\ last.err = "none"
    /\ last.ids = {}
    /\ Issued(last.trace, {"select"}) = {}


\* ------------------------------------------------------------------ C16
\* C16: every invocation of a binary-search removal, the recursive ones included, is
\* given the min_segment_size of the top-level call and tests base case A
\* ((halfway - start) < min_segment_size) with it.
C16_EveryInvocationUsesTheCallersMinSegmentSize ==
    (last.op = SearchFn)
    => /\ \A i \in Calls(last.trace, SearchFn) :
             last.trace[i].min_segment_size = last.args.min_segment_size
       /\ \A j \in Issued(last.trace, {"case"}) :
             /\ last.trace[j].min_segment_size = last.args.min_segment_size
             /\ last.trace[j].name = "A" <=>
                   base_case_A(last.trace[j].start, last.trace[j].halfway,
                               last.trace[j].end, last.args.min_segment_size)


\* ------------------------------------------------------------------ C17
\* C17: after a binary-search removal called without start and end (both read from
\* the target's least and greatest timestamps) returns, the target holds no row whose
\* key the source lacks, the rows at the least and at the greatest timestamp included.
C17_DerivedBoundsLeaveNoOrphan ==
    (/\ last.op = SearchFn
     /\ ~truthy(last.args.start) /\ ~truthy(last.args.end)
     /\ last.args.fields # <<>>
     /\ ~last.args.stick
     /\ last.err = "none")
    => NormalKeys(target) \subseteq NormalKeys(source)


\* ------------------------------------------------------------------ C18
\* C18: remove_orphans_from_target over [start, end) deletes only rows of the target
\* that match [start, end), and returns the number of rows it deleted, also when the
\* target holds several rows of one key.
C18_RemovalStaysInsideTheRange ==
    (/\ last.op = FlatFn
     /\ truthy(last.args.start) /\ truthy(last.args.end)
     /\ last.err = "none")
    => /\ (last.pre.target \ target) \subseteq InRange(last.pre.target)
       /\ last.ret = Cardinality(last.pre.target \ target)


\* ------------------------------------------------------------------ C19
\* the positions after the case analysis at position i that belong to its invocation:
\* those up to the invocation's return
Within(trace, i) ==
    {k \in (i + 1)..Len(trace) :
        \A r \in (i + 1)..k : ~IsSearchReturn(trace[r], trace[i].depth)}

\* the positions of the calls and of the store operations that carry a range
Ranged(trace) ==
    {k \in 1..Len(trace) :
        \/ trace[k].op = "call"
        \/ trace[k].op = "delete"
        \/ trace[k].op \in {"count", "select"} /\ Len(trace[k].where.terms) >= 1}

\* where the range of the event at position k begins; a delete belongs to the flat
\* removal called last before it
BeginOf(trace, k) ==
    IF trace[k].op = "call" THEN trace[k].start
    ELSE IF trace[k].op = "delete"
    THEN LET before == {j \in Calls(trace, FlatFn) : j < k}
         IN  IF before = {} THEN None
             ELSE trace[CHOOSE j \in before : \A x \in before : x <= j].start
    ELSE trace[k].where.terms[1].from

InSecondHalf(trace, i, k) == ts_ge(BeginOf(trace, k), trace[i].halfway)

\* C19: in base case C and in the recursive case of every invocation, every call and
\* store operation of the first half [start, halfway), those of its sub-recursions
\* and its deletes included, comes before every one of the second half [halfway, end);
\* the second half begins with its call, right after the first half has returned;
\* store operations are issued one at a time, each done before the next.
C19_FirstHalfCompletesBeforeSecond ==
    (last.op = SearchFn)
    => \A i \in Issued(last.trace, {"case"}) :
          (last.trace[i].name \in {"C", "recursive"})
          => LET tr == last.trace
                 mine == Within(tr, i) \cap Ranged(tr)
                 second == {k \in mine : InSecondHalf(tr, i, k)}
             IN  /\ i + 1 \in mine \ second
                 /\ \A a \in mine \ second, b \in second : a < b
                 /\ \A k \in mine : ts_ge(BeginOf(tr, k), tr[i].start)
                 /\ \A b \in second :
                       (\A a \in second : b <= a)
                       => /\ tr[b].op = "call"
                          /\ tr[b].start = tr[i].halfway
                          /\ tr[b - 1].op = "return"

\* a recursive case whose first half deleted and whose second half deleted after it
C19_Witness ==
    /\ last.op = SearchFn
    /\ last.err = "none"
    /\ \E i \in Issued(last.trace, {"case"}) :
          /\ last.trace[i].name = "recursive"
          /\ last.trace[i].depth = 0
          /\ \E a, b \in Within(last.trace, i) :
                /\ last.trace[a].op = "delete" /\ ~InSecondHalf(last.trace, i, a)
                /\ last.trace[b].op = "delete" /\ InSecondHalf(last.trace, i, b)
                /\ a < b


\* ------------------------------------------------------------------ C20
\* the rows whose every listed column is before / not before the bound
AllBefore(rows, fields, bound) ==
    {r \in rows : \A i \in 1..Len(fields) : ts_lt(r[fields[i]], bound)}
AllFrom(rows, fields, bound) ==
    {r \in rows : \A i \in 1..Len(fields) : ts_ge(r[fields[i]], bound)}

\* the builder returned a clause a query can carry, and it selects these rows
BuiltAndSelects(rows) ==
    /\ last.err = "none"
    /\ well_formed(last.where)
    /\ select_rows(target, last.where) = rows

\* C20: with timestamp columns and no truncation to dates, the predicate built for an
\* end bound alone is well formed and matches exactly the rows whose every listed
\* column is < end; the one built for a start bound alone matches exactly the rows
\* whose every listed column is >= start.
C20_OneSidedPredicates ==
    (last.op = "where" /\ last.args.fields # <<>> /\ ~last.args.stick)
    => /\ (~truthy(last.args.start) /\ truthy(last.args.end))
          => BuiltAndSelects(AllBefore(target, last.args.fields, last.args.end))
       /\ (truthy(last.args.start) /\ ~truthy(last.args.end))
          => BuiltAndSelects(AllFrom(target, last.args.fields, last.args.start))

=============================================================================
